---- MODULE Spec2Model ----
(***************************************************************************)
(* Model of dataframe_processor_framework: the DataFrameProcessor          *)
(* (data_processor.py), the DriveIOHandler (drive_io_handler.py) and the   *)
(* DataProcessorUI form and its click pipeline (colab_processor_ui.py).    *)
(*                                                                         *)
(* A pandas DataFrame is modelled as an index plus a sequence of columns;  *)
(* a column is a name, a dtype and a sequence of cells; a cell is a        *)
(* string: a number "0".."12", "NaN", "NaT", a date string "t1".."t3", a   *)
(* text "x"/"y", a parsed timestamp "@..", a str() rendering "s..", or a   *)
(* bool "True"/"False".  DataFrame objects live in a heap of references so *)
(* that in-place assignment and rebinding of self.df are distinguished.    *)
(***************************************************************************)
EXTENDS Naturals, Sequences, FiniteSets, TLC

VARIABLES heap, processor, last, ncalls, phase,
          cb, par, disp, processed_df, click, clicked, edits, again,
          saveIn, saveOut

vars == <<heap, processor, last, ncalls, phase,
          cb, par, disp, processed_df, click, clicked, edits, again,
          saveIn, saveOut>>

\* ------------------------------------------------------------------ bounds

\* DataFrameProcessor method calls explored on one processor object
MaxCalls == 2
\* widget value changes explored after a click before the next click
MaxEditsAfterClick == 1

\* ------------------------------------------------------------------ cells

None == "None"
NaN == "NaN"
NaT == "NaT"

NumStr == <<"0", "1", "2", "3", "4", "5", "6", "7", "8", "9", "10", "11", "12">>

IsNum(v) == \E n \in 1..Len(NumStr) : NumStr[n] = v
Num(v) == (CHOOSE n \in 1..Len(NumStr) : NumStr[n] = v) - 1
Str(n) == NumStr[n + 1]

\* pandas isna(): NaN and NaT are missing; the strings 'nan'/'NaT' are not
IsNa(v) == v \in {NaN, NaT}

DateStrs == {"t1", "t2", "t3"}
IsTimestamp(v) == \E d \in DateStrs \cup {NumStr[n] : n \in 1..Len(NumStr)} : v = "@" \o d
IsRendered(v) == \E n \in 1..Len(NumStr) : v = "s" \o NumStr[n]

\* pd.to_datetime on one cell: date strings and numbers parse, NaN -> NaT,
\* other text does not parse
Parseable(v) == v \in DateStrs \/ IsNum(v) \/ IsNa(v) \/ IsTimestamp(v)
ParseCell(v) == IF IsNa(v) THEN NaT ELSE IF IsTimestamp(v) THEN v ELSE "@" \o v

\* ------------------------------------------------------------------ tables

Range(n) == [i \in 1..n |-> Str(i - 1)]
RangeIndex(n) == [name |-> "", dtype |-> "range", vals |-> Range(n)]

NoTable == [index |-> [name |-> "unallocated", dtype |-> "", vals |-> <<>>], cols |-> <<>>]

\* A table with a parseable time column, a numeric column with a missing
\* value and a text column with a missing value; rows 3 and 4 are duplicates.
TableA ==
  [index |-> RangeIndex(4),
   cols |-> << [name |-> "timestamp", dtype |-> "object", vals |-> <<"t1", "t2", "t3", "t3">>],
               [name |-> "a", dtype |-> "float64", vals |-> <<"0", NaN, "12", "12">>],
               [name |-> "b", dtype |-> "object", vals |-> <<NaN, "x", "y", "y">>] >>]

\* A table whose time column does not parse and that has no missing value.
TableB ==
  [index |-> RangeIndex(2),
   cols |-> << [name |-> "timestamp", dtype |-> "object", vals |-> <<"t1", "x">>],
               [name |-> "a", dtype |-> "int64", vals |-> <<"1", "2">>] >>]

RawTables == {TableA, TableB}

NRows(T) == Len(T.index.vals)
NCols(T) == Len(T.cols)
Columns(T) == [i \in 1..NCols(T) |-> T.cols[i].name]
HasCol(T, c) == \E i \in 1..NCols(T) : T.cols[i].name = c
ColIdx(T, c) == CHOOSE i \in 1..NCols(T) : T.cols[i].name = c
Col(T, c) == T.cols[ColIdx(T, c)]
SeqSet(q) == {q[i] : i \in 1..Len(q)}
InSeq(x, q) == \E i \in 1..Len(q) : q[i] = x

\* df[c] = column (in-place __setitem__ of an existing column)
SetCol(T, c, col) == [T EXCEPT !.cols[ColIdx(T, c)] = col]

RECURSIVE Ascending(_)
Ascending(S) ==
  IF S = {} THEN <<>>
  ELSE LET m == CHOOSE x \in S : \A y \in S : x <= y
       IN <<m>> \o Ascending(S \ {m})

Pick(q, S) == LET ix == Ascending(S) IN [i \in 1..Len(ix) |-> q[ix[i]]]

\* the rows of T at the positions in S, in order (index labels travel along)
KeepRows(T, S) ==
  [index |-> [T.index EXCEPT !.vals = Pick(T.index.vals, S)],
   cols |-> [i \in 1..NCols(T) |-> [T.cols[i] EXCEPT !.vals = Pick(T.cols[i].vals, S)]]]

\* df[list of names]: the named columns in the order given
Project(T, names) ==
  [T EXCEPT !.cols = [i \in 1..Len(names) |-> Col(T, names[i])]]

\* the columns a call works on when it ignores subset_cols
Target_all(T, subset) == Columns(T)

\* the columns a call works on: subset_cols if truthy, else all
Target(T, subset) == IF subset # <<>> THEN subset ELSE Columns(T)

\* ------------------------------------------------------------------ pandas

IsNumericDtype(d) == d \in {"int64", "float64", "Int64", "bool"}

PrevValid(v, i) == {j \in 1..(i - 1) : ~IsNa(v[j])}
NextValid(v, i) == {j \in (i + 1)..Len(v) : ~IsNa(v[j])}
Max(S) == CHOOSE x \in S : \A y \in S : y <= x
Min(S) == CHOOSE x \in S : \A y \in S : x <= y

\* Series.fillna(method='ffill')
FFill(v) == [i \in 1..Len(v) |->
  IF IsNa(v[i]) /\ PrevValid(v, i) # {} THEN v[Max(PrevValid(v, i))] ELSE v[i]]

\* Series.fillna(method='bfill')
BFill(v) == [i \in 1..Len(v) |->
  IF IsNa(v[i]) /\ NextValid(v, i) # {} THEN v[Min(NextValid(v, i))] ELSE v[i]]

\* Series.fillna(value)
FillValue(v, x) == [i \in 1..Len(v) |-> IF IsNa(v[i]) THEN x ELSE v[i]]

\* Series.interpolate(method='linear'): interior gaps are interpolated,
\* trailing gaps repeat the last valid value, leading gaps stay missing
Interpolate(v) == [i \in 1..Len(v) |->
  IF ~IsNa(v[i]) \/ PrevValid(v, i) = {} THEN v[i]
  ELSE LET j == Max(PrevValid(v, i))
       IN IF NextValid(v, i) = {} THEN v[j]
          ELSE LET k == Min(NextValid(v, i))
                   lo == Num(v[j])
                   hi == Num(v[k])
               IN IF hi >= lo THEN Str(lo + ((hi - lo) * (i - j)) \div (k - j))
                  ELSE Str(lo - ((lo - hi) * (i - j)) \div (k - j))]

Valid(v) == {i \in 1..Len(v) : ~IsNa(v[i])}

RECURSIVE SumAt(_, _)
SumAt(v, S) ==
  IF S = {} THEN 0
  ELSE LET i == CHOOSE x \in S : TRUE IN Num(v[i]) + SumAt(v, S \ {i})

\* Series.mean() (NaN when no value is present)
Mean(v) == IF Valid(v) = {} THEN NaN ELSE Str(SumAt(v, Valid(v)) \div Cardinality(Valid(v)))

\* the n-th smallest of the valid values
Nth(v, n) ==
  LET i == CHOOSE x \in Valid(v) :
             /\ Cardinality({y \in Valid(v) : Num(v[y]) < Num(v[x])}) < n
             /\ Cardinality({y \in Valid(v) : Num(v[y]) <= Num(v[x])}) >= n
  IN Num(v[i])

\* Series.median()
Median(v) ==
  LET c == Cardinality(Valid(v))
  IN IF c = 0 THEN NaN
     ELSE IF c % 2 = 1 THEN Str(Nth(v, (c + 1) \div 2))
     ELSE Str((Nth(v, c \div 2) + Nth(v, c \div 2 + 1)) \div 2)

\* dtype of a column after fillna(x): a non-numeric value in a numeric
\* column that had a gap makes it object
FilledDtype(col, x) ==
  IF (\E i \in 1..Len(col.vals) : IsNa(col.vals[i])) /\ ~IsNum(x) /\ IsNumericDtype(col.dtype)
  THEN "object" ELSE col.dtype

\* pd.to_datetime(series, errors=errors): [ok, col]
ToDatetime(col, errors) ==
  LET bad == \E i \in 1..Len(col.vals) : ~Parseable(col.vals[i])
  IN IF bad /\ errors = "raise" THEN [ok |-> FALSE, col |-> col]
     ELSE IF bad /\ errors = "ignore" THEN [ok |-> TRUE, col |-> col]
     ELSE [ok |-> TRUE,
           col |-> [col EXCEPT !.dtype = "datetime64[ns]",
                               !.vals = [i \in 1..Len(col.vals) |->
                                  IF Parseable(col.vals[i]) THEN ParseCell(col.vals[i]) ELSE NaT]]]

\* one cell under astype(float): the number it denotes, or "fail"
FloatCell(v) ==
  IF IsNum(v) \/ v = NaN THEN v
  ELSE IF v = "True" THEN "1"
  ELSE IF v = "False" THEN "0"
  ELSE IF v = "sNaN" THEN NaN
  ELSE IF IsRendered(v) THEN NumStr[CHOOSE n \in 1..Len(NumStr) : v = "s" \o NumStr[n]]
  ELSE "fail"

\* one cell under astype(str)
StrCell(v) == IF IsNum(v) \/ IsNa(v) \/ IsTimestamp(v) \/ v \in {"True", "False"} THEN "s" \o v ELSE v

\* one cell under astype(bool): zero and False are False, all else (NaN too) True
BoolCell(v) == IF v \in {"0", "False"} THEN "False" ELSE "True"

MapCol(col, dtype, F(_)) ==
  [col EXCEPT !.dtype = dtype, !.vals = [i \in 1..Len(col.vals) |-> F(col.vals[i])]]

\* Series.astype(target, errors=errors) for the six target types of
\* convert_data_types: [ok, col]; errors='ignore' returns the input on failure
AsType(col, target, errors) ==
  LET hasNa == \E i \in 1..Len(col.vals) : IsNa(col.vals[i])
      numFail == \E i \in 1..Len(col.vals) : ~IsNa(col.vals[i]) /\ FloatCell(col.vals[i]) = "fail"
      Float(v) == IF IsNa(v) THEN NaN ELSE FloatCell(v)
      Same(v) == v
      res == CASE target = "float" ->
                    IF numFail THEN [ok |-> FALSE, col |-> col]
                    ELSE [ok |-> TRUE, col |-> MapCol(col, "float64", Float)]
               [] target = "int" ->
                    IF numFail THEN [ok |-> FALSE, col |-> col]
                    ELSE IF hasNa THEN [ok |-> TRUE, col |-> MapCol(col, "Int64", Float)]
                    ELSE [ok |-> TRUE, col |-> MapCol(col, "int64", Float)]
               [] target = "str" -> [ok |-> TRUE, col |-> MapCol(col, "object", StrCell)]
               [] target = "category" -> [ok |-> TRUE, col |-> MapCol(col, "category", Same)]
               [] target = "bool" -> [ok |-> TRUE, col |-> MapCol(col, "bool", BoolCell)]
  IN IF ~res.ok /\ errors = "ignore" THEN [ok |-> TRUE, col |-> col] ELSE res

\* the key of row r over the named columns
RowKey(T, names, r) == [i \in 1..Len(names) |-> Col(T, names[i]).vals[r]]

\* DataFrame.drop_duplicates(subset=subset, keep=keep)
DropDuplicates(T, subset, keep) ==
  LET names == Target(T, subset)
      Dup(r, q) == RowKey(T, names, r) = RowKey(T, names, q)
      kept == {r \in 1..NRows(T) :
                 CASE keep = "first" -> ~\E q \in 1..(r - 1) : Dup(r, q)
                   [] keep = "last" -> ~\E q \in (r + 1)..NRows(T) : Dup(r, q)
                   [] OTHER -> ~\E q \in 1..NRows(T) : q # r /\ Dup(r, q)}
  IN KeepRows(T, kept)

\* DataFrame.dropna(subset=...): rows with no missing value in the columns
DropNaRows(T, subset) ==
  LET names == Target(T, subset)
  IN KeepRows(T, {r \in 1..NRows(T) : \A i \in 1..Len(names) : ~IsNa(Col(T, names[i]).vals[r])})

ColHasNa(col) == \E r \in 1..Len(col.vals) : IsNa(col.vals[r])

\* the columns of T that satisfy Keep, in order
FilterCols(T, Keep(_)) ==
  LET S == {i \in 1..NCols(T) : Keep(T.cols[i])}
  IN [T EXCEPT !.cols = Pick(T.cols, S)]

\* a rename map is a sequence of <<old, new>> pairs
MapKeys(m) == [i \in 1..Len(m) |-> m[i][1]]
Renamed(m, c) == IF InSeq(c, MapKeys(m)) THEN m[CHOOSE i \in 1..Len(m) : m[i][1] = c][2] ELSE c

\* DataFrame.rename(columns=m)
Rename(T, m) == [T EXCEPT !.cols = [i \in 1..NCols(T) |-> [T.cols[i] EXCEPT !.name = Renamed(m, T.cols[i].name)]]]

\* ------------------------------------------------------------------ DataFrameProcessor

\* A processor state: the heap of DataFrame objects, the reference held in
\* self.df, self.log_messages, and the exception (if any) the last call
\* left propagating to its caller.
NoExc == ""

\* self._log(message)
Log(s, m) == [s EXCEPT !.log = Append(@, m)]

\* except Exception as e: self._log(...); raise
Raise(s, e, m) == [Log(s, m) EXCEPT !.exc = e]

Df(s) == s.heap[s.df]

\* mutation of the object self.df refers to (df[col] = ..., inplace=True)
SetItem(s, T) == [s EXCEPT !.heap[s.df] = T]

\* self.df = <new object>
Rebind(s, T) == [s EXCEPT !.heap["work"] = T, !.df = "work"]

\* DataFrameProcessor.__init__ without the copy: self.df = df
DataFrameProcessor_alias(h, src) ==
  [heap |-> h, df |-> src, log |-> <<"created">>, exc |-> NoExc]

\* DataFrameProcessor.__init__: self.df = df.copy(); one log message
DataFrameProcessor(h, src) ==
  [heap |-> [h EXCEPT !["work"] = h[src]], df |-> "work", log |-> <<"created">>, exc |-> NoExc]

\* set_datetime_index with set_index(time_col, drop=False)
set_datetime_index_keep(s, time_col, errors) ==
  LET T == Df(s)
  IN IF ~HasCol(T, time_col)
     THEN Raise(s, "KeyError", "error: set_datetime_index")
     ELSE LET r == ToDatetime(Col(T, time_col), errors)
          IN IF ~r.ok
             THEN Raise(s, "ValueError", "error: set_datetime_index")
             ELSE Log(SetItem(s, [index |-> r.col, cols |-> SetCol(T, time_col, r.col).cols]),
                      "datetime index set")

\* set_datetime_index(time_col, errors)
set_datetime_index(s, time_col, errors) ==
  LET T == Df(s)
  IN IF ~HasCol(T, time_col)
     THEN Raise(s, "KeyError", "error: set_datetime_index")
     ELSE LET r == ToDatetime(Col(T, time_col), errors)
          IN IF ~r.ok
             THEN Raise(s, "ValueError", "error: set_datetime_index")
             ELSE LET others == {i \in 1..NCols(T) : T.cols[i].name # time_col}
                      T2 == [index |-> r.col, cols |-> Pick(T.cols, others)]
                  IN Log(SetItem(s, T2), "datetime index set")

ValidStrategies ==
  {"ffill", "bfill", "dropna_rows", "dropna_cols", "interpolate",
   "fill_constant", "fill_mean", "fill_median", "fill_zero"}

\* T with F applied to each column named in names
ApplyCols(T, names, F(_)) ==
  [T EXCEPT !.cols = [i \in 1..NCols(T) |->
     IF InSeq(T.cols[i].name, names) THEN F(T.cols[i]) ELSE T.cols[i]]]

\* df[subset] = df[subset].f() mutates in place; df = df.f() rebinds
Assign(s, subset, T) == IF subset # <<>> THEN SetItem(s, T) ELSE Rebind(s, T)

\* the two closing log messages of handle_missing_values
Handled(s) == Log(Log(s, "missing values handled"), "missing before/after")

\* the strategy branches of handle_missing_values and its closing log
\* messages, reached once the strategy and the subset have been checked
ApplyStrategy(s, strategy, subset_cols, fill_value, method) ==
  LET T == Df(s)
      names == Target(T, subset_cols)
      Ff(c) == [c EXCEPT !.vals = FFill(c.vals)]
      Bf(c) == [c EXCEPT !.vals = BFill(c.vals)]
      Ip(c) == IF IsNumericDtype(c.dtype) /\ ColHasNa(c)
               THEN [c EXCEPT !.vals = Interpolate(c.vals)] ELSE c
      Fc(c) == [c EXCEPT !.vals = FillValue(c.vals, fill_value), !.dtype = FilledDtype(c, fill_value)]
      Fz(c) == [c EXCEPT !.vals = FillValue(c.vals, "0"), !.dtype = FilledDtype(c, "0")]
      Fm(c) == IF IsNumericDtype(c.dtype) /\ ColHasNa(c)
               THEN [c EXCEPT !.vals = FillValue(c.vals, Mean(c.vals))] ELSE c
      Fd(c) == IF IsNumericDtype(c.dtype) /\ ColHasNa(c)
               THEN [c EXCEPT !.vals = FillValue(c.vals, Median(c.vals))] ELSE c
      KeepCol(c) == ~InSeq(c.name, subset_cols) \/ ~ColHasNa(c)
      NoNa(c) == ~ColHasNa(c)
  IN   CASE strategy = "ffill" -> Handled(Assign(s, subset_cols, ApplyCols(T, names, Ff)))
            [] strategy = "bfill" -> Handled(Assign(s, subset_cols, ApplyCols(T, names, Bf)))
            [] strategy = "dropna_rows" -> Handled(Rebind(s, DropNaRows(T, subset_cols)))
            [] strategy = "dropna_cols" ->
                 IF subset_cols # <<>> THEN Handled(Rebind(s, FilterCols(T, KeepCol)))
                 ELSE Handled(Rebind(s, FilterCols(T, NoNa)))
            [] strategy = "interpolate" ->
                 IF method # "linear"
                 THEN Raise(s, "ValueError", "error: handle_missing_values")
                 ELSE IF \A i \in 1..Len(names) : Col(T, names[i]).dtype = "object"
                 THEN Raise(s, "TypeError", "error: handle_missing_values")
                 ELSE Handled(Assign(s, subset_cols, ApplyCols(T, names, Ip)))
            [] strategy = "fill_constant" ->
                 IF fill_value = None
                 THEN Raise(s, "ValueError", "error: handle_missing_values: fill_value required")
                 ELSE Handled(Assign(s, subset_cols, ApplyCols(T, names, Fc)))
            [] strategy = "fill_mean" -> Handled(SetItem(s, ApplyCols(T, names, Fm)))
            [] strategy = "fill_median" -> Handled(SetItem(s, ApplyCols(T, names, Fd)))
            [] strategy = "fill_zero" -> Handled(Assign(s, subset_cols, ApplyCols(T, names, Fz)))

\* handle_missing_values with the subset checked before the strategy
handle_missing_values_subset_first(s, strategy, subset_cols, fill_value, method) ==
  IF \E i \in 1..Len(subset_cols) : ~HasCol(Df(s), subset_cols[i])
  THEN Raise(s, "ValueError", "error: handle_missing_values: column not found")
  ELSE IF strategy \notin ValidStrategies
  THEN Raise(s, "ValueError", "error: handle_missing_values: strategy not supported")
  ELSE ApplyStrategy(s, strategy, subset_cols, fill_value, method)

\* handle_missing_values(strategy, subset_cols, fill_value, method); the
\* logged error message carries the text of the exception
handle_missing_values(s, strategy, subset_cols, fill_value, method) ==
  IF strategy \notin ValidStrategies
  THEN Raise(s, "ValueError", "error: handle_missing_values: strategy not supported")
  ELSE IF \E i \in 1..Len(subset_cols) : ~HasCol(Df(s), subset_cols[i])
  THEN Raise(s, "ValueError", "error: handle_missing_values: column not found")
  ELSE ApplyStrategy(s, strategy, subset_cols, fill_value, method)

SupportedTypes == {"float", "int", "str", "category", "bool", "datetime"}

\* the body of the inner try of convert_data_types for one column: [ok, col]
ConvertColumn(col, target_type, errors) ==
  IF target_type \notin SupportedTypes THEN [ok |-> FALSE, col |-> col]
  ELSE IF target_type = "datetime" THEN ToDatetime(col, errors)
  ELSE AsType(col, target_type, errors)

\* the for loop of convert_data_types from item i on; a column already
\* converted stays converted when a later one raises
RECURSIVE ConvertLoop(_, _, _, _)
ConvertLoop(s, column_types, i, errors) ==
  IF i > Len(column_types) THEN s
  ELSE LET col == column_types[i][1]
           target_type == column_types[i][2]
           T == Df(s)
       IN IF ~HasCol(T, col)
          THEN IF errors = "ignore"
               THEN ConvertLoop(Log(s, "column not found, skipped"), column_types, i + 1, errors)
               ELSE [s EXCEPT !.exc = "KeyError"]
          ELSE LET r == ConvertColumn(Col(T, col), target_type, errors)
               IN IF r.ok
                  THEN ConvertLoop(Log(SetItem(s, SetCol(T, col, r.col)), "column converted"),
                                   column_types, i + 1, errors)
                  ELSE IF errors = "raise"
                  THEN [s EXCEPT !.exc = "ValueError"]
                  ELSE ConvertLoop(Log(s, "conversion failed, skipped"), column_types, i + 1, errors)

\* convert_data_types(column_types, errors); column_types is the dict as a
\* sequence of <<column, target type>> items in insertion order
convert_data_types(s, column_types, errors) ==
  LET T == Df(s)
      missing_columns == {i \in 1..Len(column_types) : ~HasCol(T, column_types[i][1])}
  IN IF missing_columns # {} /\ errors = "raise"
     THEN Raise(s, "KeyError", "error: convert_data_types")
     ELSE LET r == ConvertLoop(s, column_types, 1, errors)
          IN IF r.exc # NoExc THEN Raise(r, r.exc, "error: convert_data_types") ELSE r

\* remove_duplicate_rows(subset, keep)
remove_duplicate_rows(s, subset, keep) ==
  LET T == Df(s)
  IN IF \E i \in 1..Len(subset) : ~HasCol(T, subset[i])
     THEN Raise(s, "ValueError", "error: remove_duplicate_rows")
     ELSE Log(Rebind(s, DropDuplicates(T, subset, keep)), "duplicates removed")

\* rename_columns(rename_map)
rename_columns(s, rename_map) ==
  LET T == Df(s)
  IN IF \E i \in 1..Len(rename_map) : ~HasCol(T, rename_map[i][1])
     THEN Raise(s, "KeyError", "error: rename_columns")
     ELSE Log(Rebind(s, Rename(T, rename_map)), "columns renamed")

\* select_columns(columns_to_keep)
select_columns(s, columns_to_keep) ==
  LET T == Df(s)
      removed_columns == SeqSet(Columns(T)) \ SeqSet(columns_to_keep)
      kept == Log(Rebind(s, Project(T, columns_to_keep)), "columns kept")
  IN IF \E i \in 1..Len(columns_to_keep) : ~HasCol(T, columns_to_keep[i])
     THEN Raise(s, "ValueError", "error: select_columns")
     ELSE IF removed_columns # {} THEN Log(kept, "columns removed") ELSE kept

\* the user functions explored: one returning its argument, one returning a
\* new frame without the last column, one returning a non-frame, one raising
CustomFunctions == {"identity", "drop_last", "not_a_frame", "raises"}

\* apply_custom_function(func)
apply_custom_function(s, func) ==
  LET T == Df(s)
      R == [T EXCEPT !.cols = SubSeq(T.cols, 1, NCols(T) - 1)]
  IN CASE func = "raises" -> Raise(s, "Exception", "error: apply_custom_function")
       [] func = "not_a_frame" -> Raise(s, "ValueError", "error: apply_custom_function")
       [] func = "identity" -> Log(s, "custom function applied")
       [] func = "drop_last" ->
            IF NCols(T) = 0 THEN Log(Rebind(s, T), "custom function applied")
            ELSE Log(Log(Log(Rebind(s, R), "shape changed"), "columns removed"),
                     "custom function applied")

\* get_processed_df(): one log message; the caller receives self.df.copy()
get_processed_df(s) == Log(s, "processed frame returned")

\* ------------------------------------------------------------------ direct use of the processor

\* argument values explored for the DataFrameProcessor methods
TimeCols == {"timestamp", "zz"}
TimeErrors == {"raise", "coerce", "ignore"}
Strategies == ValidStrategies \cup {"bogus"}
Subsets == {<<>>, <<"a">>, <<"a", "b">>, <<"zz">>}
FillValues == {None, "0", "x"}
Methods == {"linear", "polynomial"}
ColumnTypes ==
  {<<>>, <<<<"a", "float">>>>, <<<<"a", "int">>>>, <<<<"a", "str">>>>, <<<<"b", "float">>>>,
   <<<<"a", "bogus">>>>, <<<<"zz", "float">>>>, <<<<"timestamp", "datetime">>>>,
   <<<<"a", "bool">>, <<"b", "bogus">>>>, <<<<"a", "category">>, <<"zz", "int">>>>}
ConvertErrors == {"raise", "ignore"}
DupSubsets == {<<>>, <<"b">>, <<"zz">>}
Keeps == {"first", "last", "False"}
RenameMaps == {<<>>, <<<<"a", "c">>>>, <<<<"zz", "c">>>>}
KeepLists == {<<"a">>, <<"b", "a">>, <<"zz">>}

Refs == {"input", "tmp", "work", "processed"}

\* the caller's table is the only object on the heap
Heap0(T) == [r \in Refs |-> IF r = "input" THEN T ELSE NoTable]

\* the processor object as a processor state
Self == [heap |-> heap, df |-> processor.df, log |-> processor.log, exc |-> NoExc]

NoCall == [op |-> "none", exc |-> NoExc, logLen |-> 0, before |-> NoTable, args |-> <<>>]

UIVars == <<cb, par, disp, processed_df, click, clicked, edits, again>>
SaveVars == <<saveIn, saveOut>>

\* a call of a processor method by the caller: the processor takes the
\* state r; the call, its outcome and the table before it are recorded
Called(op, args, res) ==
  /\ phase \in {"proc", "api"}
  /\ ncalls < MaxCalls
  /\ \E r \in {res} :
       /\ heap' = r.heap
       /\ processor' = [df |-> r.df, log |-> r.log]
       /\ last' = [op |-> op, exc |-> r.exc, logLen |-> Len(processor.log),
                   before |-> Df(Self), args |-> args]
       /\ ncalls' = ncalls + 1
       /\ UNCHANGED <<phase, UIVars, SaveVars>>

SetDatetimeIndex ==
  \E time_col \in TimeCols, errors \in TimeErrors :
    Called("set_datetime_index", [time_col |-> time_col, errors |-> errors],
           set_datetime_index(Self, time_col, errors))

HandleMissingValues ==
  \E strategy \in Strategies, subset_cols \in Subsets, fill_value \in FillValues, method \in Methods :
    /\ strategy # "fill_constant" => fill_value = None
    /\ strategy # "interpolate" => method = "linear"
    /\ Called("handle_missing_values",
              [strategy |-> strategy, subset_cols |-> subset_cols,
               fill_value |-> fill_value, method |-> method],
              handle_missing_values(Self, strategy, subset_cols, fill_value, method))

ConvertDataTypes ==
  \E column_types \in ColumnTypes, errors \in ConvertErrors :
    Called("convert_data_types", [column_types |-> column_types, errors |-> errors],
           convert_data_types(Self, column_types, errors))

RemoveDuplicateRows ==
  \E subset \in DupSubsets, keep \in Keeps :
    Called("remove_duplicate_rows", [subset |-> subset, keep |-> keep],
           remove_duplicate_rows(Self, subset, keep))

RenameColumns ==
  \E rename_map \in RenameMaps :
    Called("rename_columns", [rename_map |-> rename_map], rename_columns(Self, rename_map))

SelectColumns ==
  \E columns_to_keep \in KeepLists :
    Called("select_columns", [columns_to_keep |-> columns_to_keep],
           select_columns(Self, columns_to_keep))

ApplyCustomFunction ==
  \E func \in CustomFunctions :
    Called("apply_custom_function", [func |-> func], apply_custom_function(Self, func))

GetProcessedDf ==
  LET r == get_processed_df(Self)
  IN Called("get_processed_df", <<>>, [r EXCEPT !.heap["processed"] = Df(r)])

\* ------------------------------------------------------------------ DriveIOHandler

BasePath == "/content/drive/MyDrive/processed_data/"
\* datetime.now().strftime('%Y%m%d_%H%M%S') at the time of the call
Now == "20260101_120000"
ValidFormats == {"parquet", "csv", "feather", "pickle"}

\* what the environment does to one save: whether the drive can be mounted,
\* whether writing the data file fails, whether writing the metadata fails
DriveEnvs == [mounted : BOOLEAN, writeFails : BOOLEAN, metaFails : BOOLEAN]

\* the body of the try block of save_dataframe: the value returned, the
\* exception raised inside the block, the files written
SaveBody(env, filename_prefix, file_format, include_timestamp, custom_metadata) ==
  LET timestamp == IF include_timestamp THEN Now ELSE ""
      filename == IF timestamp # "" THEN filename_prefix \o "_" \o timestamp \o "." \o file_format
                  ELSE filename_prefix \o "." \o file_format
      full_path == BasePath \o filename
      metadata_path == IF timestamp # "" THEN BasePath \o filename_prefix \o "_" \o timestamp \o "_metadata.json"
                       ELSE BasePath \o filename_prefix \o "_metadata.json"
  IN IF ~env.mounted THEN [ret |-> "", exc |-> NoExc, written |-> {}]
     ELSE IF file_format \notin ValidFormats THEN [ret |-> None, exc |-> "ValueError", written |-> {}]
     ELSE IF env.writeFails THEN [ret |-> None, exc |-> "IOError", written |-> {}]
     ELSE IF custom_metadata /\ env.metaFails
     THEN [ret |-> None, exc |-> "IOError", written |-> {full_path}]
     ELSE IF custom_metadata
     THEN [ret |-> full_path, exc |-> NoExc, written |-> {full_path, metadata_path}]
     ELSE [ret |-> full_path, exc |-> NoExc, written |-> {full_path}]

\* save_dataframe with the ValueError of the format check left to propagate
save_dataframe_raising(env, filename_prefix, file_format, include_timestamp, custom_metadata) ==
  LET r == SaveBody(env, filename_prefix, file_format, include_timestamp, custom_metadata)
  IN IF r.exc \notin {NoExc, "ValueError"} THEN [r EXCEPT !.ret = "", !.exc = NoExc] ELSE r

\* save_dataframe: except Exception: print(...); return ""
save_dataframe(env, filename_prefix, file_format, include_timestamp, custom_metadata) ==
  LET r == SaveBody(env, filename_prefix, file_format, include_timestamp, custom_metadata)
  IN IF r.exc # NoExc THEN [r EXCEPT !.ret = "", !.exc = NoExc] ELSE r

\* ------------------------------------------------------------------ DataProcessorUI: the form

Ops == <<"set_datetime_index", "handle_missing_values", "convert_data_types",
         "remove_duplicate_rows", "rename_columns", "select_columns">>
OpSet == SeqSet(Ops)

\* the six operation checkboxes, all created with value=False
CbInit == [o \in OpSet |-> FALSE]

\* the parameter and save widgets with the values they are created with
ParInit ==
  [text_time_col |-> "timestamp", dropdown_time_errors |-> "raise", cb_infer_datetime_format |-> TRUE,
   dropdown_missing_strategy |-> "ffill", text_missing_fill_value |-> "0",
   dropdown_interpolate_method |-> "linear", text_missing_subset_cols |-> "",
   textarea_column_types |-> "{}", dropdown_convert_errors |-> "raise",
   dropdown_duplicates_keep |-> "first", text_duplicates_subset |-> "",
   textarea_rename_map |-> "{}", text_columns_to_keep |-> "",
   text_save_filename_prefix |-> "processed_data", dropdown_save_format |-> "parquet",
   cb_include_timestamp |-> TRUE]

\* the parameter widgets of each operation group
Group ==
  [o \in OpSet |->
     CASE o = "set_datetime_index" -> {"text_time_col", "dropdown_time_errors", "cb_infer_datetime_format"}
       [] o = "handle_missing_values" -> {"dropdown_missing_strategy", "text_missing_fill_value",
                                           "dropdown_interpolate_method", "text_missing_subset_cols"}
       [] o = "convert_data_types" -> {"textarea_column_types", "dropdown_convert_errors"}
       [] o = "remove_duplicate_rows" -> {"dropdown_duplicates_keep", "text_duplicates_subset"}
       [] o = "rename_columns" -> {"textarea_rename_map"}
       [] o = "select_columns" -> {"text_columns_to_keep"}]

ParamWidgets == UNION {Group[o] : o \in OpSet}

\* _setup_dynamic_widgets ends by hiding every parameter widget
DispInit == [w \in ParamWidgets |-> "none"]

\* layout.display of the widgets in W set to d
Show(dp, W, d) == [w \in ParamWidgets |-> IF w \in W THEN d ELSE dp[w]]

\* a handler that shows its group and never hides it again
OnGroup_sticky(o, new) == Show(disp, Group[o], "block")

\* the handler of a checkbox whose whole group follows the checkbox
OnGroup(o, new) == Show(disp, Group[o], IF new THEN "block" ELSE "none")

\* the two strategy-dependent widgets, as both handlers of the missing
\* group set them for a strategy
ByStrategy(dp, strategy) ==
  Show(Show(dp, {"text_missing_fill_value"}, IF strategy = "fill_constant" THEN "block" ELSE "none"),
       {"dropdown_interpolate_method"}, IF strategy = "interpolate" THEN "block" ELSE "none")

\* on_missing_checkbox_change
OnMissing(new) ==
  IF new
  THEN ByStrategy(Show(disp, {"dropdown_missing_strategy", "text_missing_subset_cols"}, "block"),
                  par.dropdown_missing_strategy)
  ELSE Show(disp, Group["handle_missing_values"], "none")

\* the values a user gives the free-text widgets and the save widgets
Inputs ==
  [text_time_col |-> {"timestamp", "zz"},
   text_missing_subset_cols |-> {"", "zz"},
   textarea_column_types |-> {"{}", "{\"zz\": \"float\"}", "{bad"},
   textarea_rename_map |-> {"{}", "{\"zz\": \"c\"}"},
   text_columns_to_keep |-> {"", " a", "zz"}]

Edited == DOMAIN Inputs

NoClick == [calls |-> <<>>, caught |-> {}, skipped |-> {}, exc |-> NoExc, ret |-> None]

\* a widget change is explored before the first click and, after a click,
\* up to the bound
MayEdit == /\ phase \in {"ui", "form"}
           /\ clicked => edits < MaxEditsAfterClick

\* the record of the last click describes the form as it was clicked: it is
\* dropped when the form changes
Touched == /\ edits' = IF clicked THEN edits + 1 ELSE edits
           /\ again' = FALSE
           /\ click' = NoClick
           /\ UNCHANGED <<heap, processor, last, ncalls, phase, processed_df, clicked, SaveVars>>

\* a checkbox value change and its observer
Toggle(o, dp) ==
  /\ MayEdit
  /\ cb' = [cb EXCEPT ![o] = ~cb[o]]
  /\ disp' = dp
  /\ par' = par
  /\ Touched

OnDatetimeCheckboxChange ==
  Toggle("set_datetime_index", OnGroup("set_datetime_index", ~cb["set_datetime_index"]))

OnMissingCheckboxChange ==
  Toggle("handle_missing_values", OnMissing(~cb["handle_missing_values"]))

OnConvertTypesCheckboxChange ==
  Toggle("convert_data_types", OnGroup("convert_data_types", ~cb["convert_data_types"]))

OnRemoveDuplicatesCheckboxChange ==
  Toggle("remove_duplicate_rows", OnGroup("remove_duplicate_rows", ~cb["remove_duplicate_rows"]))

OnRenameColumnsCheckboxChange ==
  Toggle("rename_columns", OnGroup("rename_columns", ~cb["rename_columns"]))

OnSelectColumnsCheckboxChange ==
  Toggle("select_columns", OnGroup("select_columns", ~cb["select_columns"]))

\* on_missing_strategy_change: the dropdown takes a new value
OnMissingStrategyChange ==
  \E strategy \in ValidStrategies \ {par.dropdown_missing_strategy} :
    /\ MayEdit
    /\ phase = "form"
    /\ par' = [par EXCEPT !.dropdown_missing_strategy = strategy]
    /\ disp' = ByStrategy(disp, strategy)
    /\ cb' = cb
    /\ Touched

\* the user types into a widget that has no observer
EditParam ==
  \E w \in Edited : \E v \in Inputs[w] \ {par[w]} :
    /\ MayEdit
    /\ phase = "ui"
    /\ par' = [par EXCEPT ![w] = v]
    /\ UNCHANGED <<cb, disp>>
    /\ Touched

\* ------------------------------------------------------------------ DataProcessorUI: the click

\* str.strip() on the widget texts
Strip(t) == IF t = " a" THEN "a" ELSE t

\* [col.strip() for col in text.split(',')] if text else None
SplitCols(t) == IF t = "" THEN <<>> ELSE <<Strip(t)>>

\* json.loads on the texts of the two JSON text areas: [ok, val]
JsonLoads(t) ==
  CASE t = "{}" -> [ok |-> TRUE, val |-> <<>>]
    [] t = "{\"zz\": \"float\"}" -> [ok |-> TRUE, val |-> <<<<"zz", "float">>>>]
    [] t = "{\"zz\": \"c\"}" -> [ok |-> TRUE, val |-> <<<<"zz", "c">>>>]
    [] OTHER -> [ok |-> FALSE, val |-> <<>>]

\* the click with self.processor kept from the previous click
NewProcessor_reuse(h, p) == [heap |-> h, df |-> p.df, log |-> p.log, exc |-> NoExc]

\* self.processor = DataFrameProcessor(self.raw_df.copy())
NewProcessor(h, p) == DataFrameProcessor([h EXCEPT !["tmp"] = h["input"]], "tmp")

\* the handler's progress: the processor state, the operations invoked so
\* far, those whose exception a step caught, the checked steps that invoked
\* nothing, self.processed_df and the path save_dataframe returned
Begin(h, p, pd) ==
  [s |-> NewProcessor(h, p), calls |-> <<>>, caught |-> {}, skipped |-> {},
   processed |-> pd, ret |-> None]

\* an exception is propagating out of the handler: the rest is not executed
Propagating(u) == u.s.exc # NoExc

\* a call whose exception is left to propagate
Try_uncaught(u, op, r) == [u EXCEPT !.s = r, !.calls = Append(@, op)]

\* try: <call, giving r>  except Exception as e: print(...)
Try(u, op, r) ==
  [u EXCEPT !.s = [r EXCEPT !.exc = NoExc],
            !.calls = Append(@, op),
            !.caught = IF r.exc # NoExc THEN @ \cup {op} ELSE @]

\* a checked step that prints a message instead of invoking its operation
Skip(u, op) == [u EXCEPT !.skipped = @ \cup {op}]

StepDatetime(u, f) ==
  IF Propagating(u) \/ ~f.cb["set_datetime_index"] THEN u
  ELSE Try(u, "set_datetime_index",
           set_datetime_index(u.s, Strip(f.par.text_time_col), f.par.dropdown_time_errors))

\* int()/float() of the fill-value text gives the number the cell string
\* stands for
StepMissing(u, f) ==
  LET strategy == f.par.dropdown_missing_strategy
      subset_cols == SplitCols(Strip(f.par.text_missing_subset_cols))
      fill_value == IF strategy = "fill_constant" THEN Strip(f.par.text_missing_fill_value) ELSE None
      method == IF strategy = "interpolate" THEN f.par.dropdown_interpolate_method ELSE "linear"
  IN IF Propagating(u) \/ ~f.cb["handle_missing_values"] THEN u
     ELSE Try(u, "handle_missing_values",
              handle_missing_values(u.s, strategy, subset_cols, fill_value, method))

StepConvert(u, f) ==
  LET column_types == JsonLoads(f.par.textarea_column_types)
  IN IF Propagating(u) \/ ~f.cb["convert_data_types"] THEN u
     ELSE IF ~column_types.ok THEN Skip(u, "convert_data_types")
     ELSE Try(u, "convert_data_types",
              convert_data_types(u.s, column_types.val, f.par.dropdown_convert_errors))

StepDuplicates(u, f) ==
  IF Propagating(u) \/ ~f.cb["remove_duplicate_rows"] THEN u
  ELSE Try(u, "remove_duplicate_rows",
           remove_duplicate_rows(u.s, SplitCols(Strip(f.par.text_duplicates_subset)),
                                 f.par.dropdown_duplicates_keep))

StepRename(u, f) ==
  LET rename_map == JsonLoads(f.par.textarea_rename_map)
  IN IF Propagating(u) \/ ~f.cb["rename_columns"] THEN u
     ELSE IF ~rename_map.ok THEN Skip(u, "rename_columns")
     ELSE Try(u, "rename_columns", rename_columns(u.s, rename_map.val))

StepSelect_unchecked(u, f) ==
  LET columns_text == Strip(f.par.text_columns_to_keep)
  IN IF Propagating(u) THEN u
     ELSE IF columns_text = "" THEN Skip(u, "select_columns")
     ELSE Try(u, "select_columns", select_columns(u.s, SplitCols(columns_text)))

StepSelect(u, f) ==
  LET columns_text == Strip(f.par.text_columns_to_keep)
  IN IF Propagating(u) \/ ~f.cb["select_columns"] THEN u
     ELSE IF columns_text = "" THEN Skip(u, "select_columns")
     ELSE Try(u, "select_columns", select_columns(u.s, SplitCols(columns_text)))

\* the assignment made only when no step has caught an exception
StepGet_onsuccess(u) ==
  LET r == get_processed_df(u.s)
  IN IF Propagating(u) \/ u.caught # {} THEN u
     ELSE [u EXCEPT !.s = [r EXCEPT !.heap["processed"] = Df(r)],
                    !.calls = Append(@, "get_processed_df"),
                    !.processed = "processed"]

\* self.processed_df = self.processor.get_processed_df()
StepGet(u) ==
  LET r == get_processed_df(u.s)
  IN IF Propagating(u) THEN u
     ELSE [u EXCEPT !.s = [r EXCEPT !.heap["processed"] = Df(r)],
                    !.calls = Append(@, "get_processed_df"),
                    !.processed = "processed"]

\* try: file_path = self.drive_saver.save_dataframe(...) except Exception: print
StepSave(u, f, env) ==
  LET r == save_dataframe(env, Strip(f.par.text_save_filename_prefix), f.par.dropdown_save_format,
                          f.par.cb_include_timestamp, FALSE)
  IN IF Propagating(u) THEN u
     ELSE [u EXCEPT !.calls = Append(@, "save_dataframe"),
                    !.ret = r.ret,
                    !.caught = IF r.exc # NoExc THEN @ \cup {"save_dataframe"} ELSE @]

\* the steps with renaming before de-duplication
Pipeline_reordered(u, f) ==
  StepGet(StepSelect(StepDuplicates(StepRename(StepConvert(StepMissing(
    StepDatetime(u, f), f), f), f), f), f))

\* _on_process_button_clicked from the first step up to the assignment of
\* self.processed_df
Pipeline(u, f) ==
  StepGet(StepSelect(StepRename(StepDuplicates(StepConvert(StepMissing(
    StepDatetime(u, f), f), f), f), f), f))

\* get_final_dataframe()
get_final_dataframe == IF processed_df # None THEN processed_df ELSE None

\* what the drive can do to the save of a click, which passes no metadata:
\* no drive, a failing write, a successful write
ClickEnvs == {e \in DriveEnvs : ~e.metaFails /\ (e.writeFails => e.mounted)}

\* _on_process_button_clicked
Click ==
  /\ phase = "ui"
  /\ \E f \in {[cb |-> cb, par |-> par]} :
     \E g \in {Pipeline(Begin(heap, processor, processed_df), f)} :
     \E env \in ClickEnvs :
     \E u \in {StepSave(g, f, env)} :
       /\ heap' = [u.s.heap EXCEPT !["tmp"] = NoTable]
       /\ processor' = [df |-> u.s.df, log |-> u.s.log]
       /\ processed_df' = u.processed
       /\ click' = [calls |-> u.calls, caught |-> u.caught, skipped |-> u.skipped,
                    exc |-> u.s.exc, ret |-> u.ret]
       /\ clicked' = TRUE
       /\ edits' = 0
       /\ again' = (clicked /\ edits = 0)
       /\ UNCHANGED <<cb, par, disp, last, ncalls, phase, SaveVars>>

\* launch_processor_ui(input_df): DataProcessorUI.__init__ on the caller's
\* table; the objects of the caller's earlier work are no longer followed
Launch ==
  LET p == DataFrameProcessor(Heap0(heap["input"]), "input")
  IN /\ phase = "api"
     /\ phase' = "ui"
     /\ heap' = p.heap
     /\ processor' = [df |-> p.df, log |-> p.log]
     /\ processed_df' = None
     /\ cb' = CbInit
     /\ par' = ParInit
     /\ disp' = DispInit
     /\ click' = NoClick
     /\ last' = NoCall
     /\ ncalls' = 0
     /\ clicked' = FALSE
     /\ edits' = 0
     /\ again' = FALSE
     /\ UNCHANGED SaveVars

\* ------------------------------------------------------------------ save_dataframe on its own

SaveInputs ==
  [env : DriveEnvs, filename_prefix : {"processed_df", "out"},
   file_format : ValidFormats \cup {"xlsx"}, include_timestamp : BOOLEAN,
   custom_metadata : BOOLEAN]

NoSave == [ret |-> None, exc |-> NoExc, written |-> {}, done |-> FALSE]
NoSaveIn == CHOOSE i \in SaveInputs : TRUE

\* one call of save_dataframe by the caller
SaveDataframe ==
  LET r == save_dataframe(saveIn.env, saveIn.filename_prefix, saveIn.file_format,
                          saveIn.include_timestamp, saveIn.custom_metadata)
  IN /\ phase = "save"
     /\ ~saveOut.done
     /\ saveOut' = [ret |-> r.ret, exc |-> r.exc, written |-> r.written, done |-> TRUE]
     /\ UNCHANGED <<heap, processor, last, ncalls, phase, UIVars, saveIn>>

\* ------------------------------------------------------------------ specifications

\* the caller holds a table and a DataFrameProcessor built from it
InitWith(ph, T) ==
  LET p == DataFrameProcessor(Heap0(T), "input")
  IN /\ phase = ph
     /\ heap = p.heap
     /\ processor = [df |-> p.df, log |-> p.log]
     /\ last = NoCall
     /\ ncalls = 0
     /\ cb = CbInit
     /\ par = ParInit
     /\ disp = DispInit
     /\ processed_df = None
     /\ click = NoClick
     /\ clicked = FALSE
     /\ edits = 0
     /\ again = FALSE
     /\ saveOut = NoSave

Init == InitWith("api", TableA) /\ saveIn = NoSaveIn

\* a session: the caller works with the processor, then launches the form
Next ==
  \/ SetDatetimeIndex \/ HandleMissingValues \/ ConvertDataTypes \/ RemoveDuplicateRows
  \/ RenameColumns \/ SelectColumns \/ ApplyCustomFunction \/ GetProcessedDf
  \/ Launch
  \/ OnDatetimeCheckboxChange \/ OnMissingCheckboxChange \/ OnConvertTypesCheckboxChange
  \/ OnRemoveDuplicatesCheckboxChange \/ OnRenameColumnsCheckboxChange
  \/ OnSelectColumnsCheckboxChange \/ EditParam
  \/ Click

Spec == Init /\ [][Next]_vars

\* the processor alone
NextProc ==
  \/ SetDatetimeIndex \/ HandleMissingValues \/ ConvertDataTypes \/ RemoveDuplicateRows
  \/ RenameColumns \/ SelectColumns \/ ApplyCustomFunction \/ GetProcessedDf

InitProc == \E T \in RawTables : InitWith("proc", T) /\ saveIn = NoSaveIn

SpecProc == InitProc /\ [][NextProc]_vars

\* the form alone: checkbox and strategy changes over all nine strategies
InitForm == InitWith("form", TableA) /\ saveIn = NoSaveIn

NextForm ==
  \/ OnDatetimeCheckboxChange \/ OnMissingCheckboxChange \/ OnConvertTypesCheckboxChange
  \/ OnRemoveDuplicatesCheckboxChange \/ OnRenameColumnsCheckboxChange
  \/ OnSelectColumnsCheckboxChange \/ OnMissingStrategyChange

SpecForm == InitForm /\ [][NextForm]_vars

\* save_dataframe alone, over its arguments and what the drive does
InitSave == InitWith("save", TableA) /\ saveIn \in SaveInputs

NextSave == SaveDataframe

SpecSave == InitSave /\ [][NextSave]_vars


\* ------------------------------------------------------------------ the click: order, isolation, selection

\* the statements of one click in the order the handler executes them
FixedOrder == Ops \o <<"get_processed_df", "save_dataframe">>

\* the place of an operation in that order
Pos(op) == CHOOSE i \in 1..Len(FixedOrder) : FixedOrder[i] = op

\* the record of a click is held: the form is as it was when clicked
JustClicked == phase = "ui" /\ click.calls # <<>>

\* how often the last click invoked op
Times(op) == Cardinality({i \in 1..Len(click.calls) : click.calls[i] = op})

\* C1: the operations a click invokes appear in the one fixed order
\* set_datetime_index, handle_missing_values, convert_data_types,
\* remove_duplicate_rows, rename_columns, select_columns, get_processed_df,
\* save_dataframe, whatever the order in which the checkboxes were ticked,
\* and none is invoked twice: the positions of the calls strictly increase
\* and the click ends with get_processed_df then save_dataframe.
C1_FixedOrder ==
  JustClicked =>
    /\ \A i, j \in 1..Len(click.calls) : i < j => Pos(click.calls[i]) < Pos(click.calls[j])
    /\ Len(click.calls) >= 2
    /\ click.calls[Len(click.calls) - 1] = "get_processed_df"
    /\ click.calls[Len(click.calls)] = "save_dataframe"

\* a click that invoked all six operations, then the two closing calls
C1_Witness == JustClicked /\ click.calls = FixedOrder

\* the widget text of a checked step lets it invoke its operation: the JSON
\* parses, the column list is not empty
Usable(o) ==
  CASE o = "convert_data_types" -> JsonLoads(par.textarea_column_types).ok
    [] o = "rename_columns" -> JsonLoads(par.textarea_rename_map).ok
    [] o = "select_columns" -> Strip(par.text_columns_to_keep) # ""
    [] OTHER -> TRUE

C3_OnlyChecked ==
  JustClicked =>
    /\ \A o \in OpSet : Times(o) > 0 => cb[o]
    /\ (\A o \in OpSet : ~cb[o]) => heap[processed_df] = heap["input"]

\* a click with nothing checked while the parameter widgets name a time
\* column and columns to keep
C3_Witness ==
  /\ JustClicked
  /\ \A o \in OpSet : ~cb[o]
  /\ par.text_columns_to_keep = " a"
  /\ par.text_time_col = "zz"
  /\ processed_df = "processed"

\* ------------------------------------------------------------------ the processor's log

\* the seven operations of DataFrameProcessor
SevenOps == OpSet \cup {"apply_custom_function"}

\* C4: every call of one of the seven operations appends at least one
\* message to the processor's log, whether it returns or raises and whatever
\* its arguments, an empty column_types or rename_map included.
C4_EveryCallLogs == last.op \in SevenOps => Len(processor.log) > last.logLen

\* ------------------------------------------------------------------ the raw table and the clicks

\* C5: the table handed to the processor or to the form keeps its content
\* through every call of the operations and every click: all work is done on
\* copies.
C5_RawUnchanged == heap["input"] = TableA

\* the form was launched after the caller's own calls, and a click ran
\* set_datetime_index and handle_missing_values, both changing the working
\* table in place
C5_Witness ==
  /\ JustClicked
  /\ click.caught = {}
  /\ Times("set_datetime_index") = 1
  /\ Times("handle_missing_values") = 1
  /\ heap["processed"] # heap["input"]

\* the form as launch_processor_ui leaves it on the raw table
Launched == DataFrameProcessor(Heap0(TableA), "input")

\* the first click on a newly launched form holding the present widget values
FreshClick ==
  Pipeline(Begin(Launched.heap, [df |-> Launched.df, log |-> Launched.log], None),
           [cb |-> cb, par |-> par])

\* C6: the result of a click depends only on the raw table and the widget
\* values at the click, not on earlier clicks: processed_df and the
\* processor's log are those of the first click on a newly launched form
\* with the same widget values, so two clicks on unchanged widgets agree.
C6_FreshEachClick ==
  JustClicked =>
    /\ heap[processed_df] = FreshClick.s.heap["processed"]
    /\ processor.log = FreshClick.s.log

\* a second click on unchanged widgets, with operations checked, one of which
\* raised
C6_Witness ==
  /\ JustClicked
  /\ again
  /\ Cardinality({o \in OpSet : Times(o) = 1}) >= 3
  /\ click.caught \cap OpSet # {}
  /\ heap["processed"] # heap["input"]

\* C7: get_final_dataframe() returns None exactly when the button has not
\* been clicked since the form was built; after a click it returns a table,
\* also when every checked step failed and the save failed.
C7_FinalFrame ==
  phase = "ui" =>
    /\ (get_final_dataframe = None) <=> ~clicked
    /\ clicked => heap[get_final_dataframe] # NoTable

\* a click in which at least three steps were checked, every invoked
\* operation raised and save_dataframe returned ""
C7_Witness ==
  /\ JustClicked
  /\ Cardinality({o \in OpSet : cb[o]}) >= 3
  /\ \A o \in OpSet : cb[o] => o \in click.caught
  /\ click.ret = ""
  /\ get_final_dataframe # None

\* ------------------------------------------------------------------ save_dataframe

\* the call is one that writes the data file and, if asked, the metadata
SaveSucceeds ==
  /\ saveIn.env.mounted
  /\ saveIn.file_format \in ValidFormats
  /\ ~saveIn.env.writeFails
  /\ ~(saveIn.custom_metadata /\ saveIn.env.metaFails)

C9_RaisesValueError ==
  (saveOut.done /\ saveIn.env.mounted /\ saveIn.file_format \notin ValidFormats)
    => saveOut.exc = "ValueError"

\* ------------------------------------------------------------------ the form's show and hide

\* the five groups whose widgets all follow the checkbox
FiveGroups == OpSet \ {"handle_missing_values"}

\* every parameter widget of the five groups is displayed exactly when the
\* group's checkbox is checked
FiveGroupsFollow ==
  \A o \in FiveGroups : \A w \in Group[o] : (disp[w] = "block") <=> cb[o]

\* C10: the form starts with all six checkboxes unchecked and every
\* parameter widget hidden, and for the five groups other than the
\* missing-value group a parameter widget is displayed if and only if its
\* checkbox is checked, after any sequence of widget changes.
C10_ShowIffChecked ==
  /\ \A o \in OpSet : ~cb[o]
  /\ \A w \in ParamWidgets : disp[w] = "none"
  /\ []FiveGroupsFollow

\* a form on which a group was shown and hidden again while others are
\* shown and the strategy dropdown has been changed
C10_Witness ==
  /\ phase = "form"
  /\ cb["set_datetime_index"] /\ cb["select_columns"] /\ ~cb["convert_data_types"]
  /\ disp["text_columns_to_keep"] = "block"
  /\ disp["textarea_column_types"] = "none"
  /\ par.dropdown_missing_strategy # "ffill"

\* C11: after any interleaving of value changes of the 'handle missing'
\* checkbox and of the strategy dropdown, the fill-value field is displayed
\* if and only if the checkbox is checked and the strategy is fill_constant,
\* the interpolation-method dropdown is displayed if and only if the
\* checkbox is checked and the strategy is interpolate, and the two are
\* never displayed together.
C11_MissingGroupDisplay ==
  /\ (disp["text_missing_fill_value"] = "block") <=>
       (cb["handle_missing_values"] /\ par.dropdown_missing_strategy = "fill_constant")
  /\ (disp["dropdown_interpolate_method"] = "block") <=>
       (cb["handle_missing_values"] /\ par.dropdown_missing_strategy = "interpolate")
  /\ ~(disp["text_missing_fill_value"] = "block" /\ disp["dropdown_interpolate_method"] = "block")

\* ------------------------------------------------------------------ the processor's operations

\* the working table after the last call
CurrentDf == heap[processor.df]

\* the last message of the processor's log
LastMessage == processor.log[Len(processor.log)]

\* C12: set_datetime_index(time_col) on a table without the column time_col
\* raises KeyError, logs an error message and leaves the table unchanged;
\* when it returns normally time_col is the name of the table's index, is no
\* longer a column, and the other columns are the same columns with the same
\* content in the same order.
C12_SetDatetimeIndex ==
  last.op = "set_datetime_index" =>
    LET T == last.before
        c == last.args.time_col
        others == {i \in 1..NCols(T) : T.cols[i].name # c}
    IN /\ ~HasCol(T, c) =>
            /\ last.exc = "KeyError"
            /\ Len(processor.log) = last.logLen + 1
            /\ LastMessage = "error: set_datetime_index"
            /\ CurrentDf = T
       /\ last.exc = NoExc =>
            /\ HasCol(T, c)
            /\ CurrentDf.index.name = c
            /\ ~HasCol(CurrentDf, c)
            /\ CurrentDf.cols = Pick(T.cols, others)

\* a second call on the same column: the first made it the index, so the
\* second finds no such column
C12_Witness ==
  /\ last.op = "set_datetime_index"
  /\ last.exc = "KeyError"
  /\ last.args.time_col = "timestamp"
  /\ last.before.index.name = "timestamp"
  /\ NCols(last.before) = 2

\* C13: handle_missing_values raises ValueError and leaves the working table
\* unchanged when the strategy is none of the nine supported ones, when a
\* subset column is not in the table, or when the strategy is fill_constant
\* and fill_value is None; the strategy is checked before the subset, so
\* with both wrong the error logged is the one about the strategy.
C13_MissingValidation ==
  last.op = "handle_missing_values" =>
    LET T == last.before
        a == last.args
        bad_strategy == a.strategy \notin ValidStrategies
        bad_subset == \E i \in 1..Len(a.subset_cols) : ~HasCol(T, a.subset_cols[i])
        no_fill_value == a.strategy = "fill_constant" /\ a.fill_value = None
    IN /\ (bad_strategy \/ bad_subset \/ no_fill_value) =>
            last.exc = "ValueError" /\ CurrentDf = T
       /\ bad_strategy =>
            LastMessage = "error: handle_missing_values: strategy not supported"

\* a call with an unsupported strategy and a subset column that does not
\* exist, made on a table an earlier call has changed
C13_Witness ==
  /\ last.op = "handle_missing_values"
  /\ last.args.strategy = "bogus"
  /\ last.args.subset_cols = <<"zz">>
  /\ last.exc = "ValueError"
  /\ last.before \notin RawTables

\* the strategies that fill missing values
FillingStrategies ==
  {"ffill", "bfill", "interpolate", "fill_constant", "fill_mean", "fill_median", "fill_zero"}

\* C14: handle_missing_values works on subset_cols only when a subset is
\* given and on all columns otherwise.  With a non-empty subset a filling
\* strategy leaves every column outside the subset, the column order and
\* the number of rows unchanged, and dropna_cols removes exactly the subset
\* columns that hold a missing value and keeps every other column; fill_zero
\* leaves no missing value in the subset, or in any column without a subset.
C14_SubsetOnly ==
  last.op = "handle_missing_values" =>
    LET T == last.before
        a == last.args
        inSubset(c) == \E i \in 1..Len(a.subset_cols) : a.subset_cols[i] = c
        hasNa(col) == \E r \in 1..Len(col.vals) : col.vals[r] \in {NaN, NaT}
        kept == {i \in 1..NCols(T) : ~(inSubset(T.cols[i].name) /\ hasNa(T.cols[i]))}
    IN /\ (a.strategy \in FillingStrategies /\ a.subset_cols # <<>>) =>
            /\ NRows(CurrentDf) = NRows(T)
            /\ CurrentDf.index = T.index
            /\ Columns(CurrentDf) = Columns(T)
            /\ \A i \in 1..NCols(T) :
                 ~inSubset(T.cols[i].name) => CurrentDf.cols[i] = T.cols[i]
       /\ (a.strategy = "dropna_cols" /\ a.subset_cols # <<>> /\ last.exc = NoExc) =>
            CurrentDf.cols = Pick(T.cols, kept)
       /\ (a.strategy = "fill_zero" /\ last.exc = NoExc) =>
            \A i \in 1..NCols(CurrentDf) :
              (a.subset_cols = <<>> \/ inSubset(CurrentDf.cols[i].name))
                => ~hasNa(CurrentDf.cols[i])

\* fill_zero on the subset [a] of a table whose column b, outside the
\* subset, holds a missing value too
C14_Witness ==
  /\ last.op = "handle_missing_values"
  /\ last.args.strategy = "fill_zero"
  /\ last.args.subset_cols = <<"a">>
  /\ last.exc = NoExc
  /\ HasCol(last.before, "b")
  /\ \E r \in 1..NRows(last.before) : IsNa(Col(last.before, "b").vals[r])
  /\ CurrentDf # last.before

\* C15: convert_data_types raises ValueError whenever a target type of
\* column_types is none of float, int, str, category, bool, datetime.
C15_UnsupportedTypeRaises ==
  (/\ last.op = "convert_data_types"
   /\ \E i \in 1..Len(last.args.column_types) :
        last.args.column_types[i][2] \notin SupportedTypes)
    => last.exc = "ValueError"

\* ------------------------------------------------------------------ what the form can select

\* the settings of the form: any checkboxes ticked, any explored text typed
FormSettings ==
  {[cb |-> c, par |-> [ParInit EXCEPT !.text_time_col = w[1], !.text_missing_subset_cols = w[2],
                                      !.textarea_column_types = w[3], !.textarea_rename_map = w[4],
                                      !.text_columns_to_keep = w[5]]] :
     c \in [OpSet -> BOOLEAN],
     w \in Inputs.text_time_col \X Inputs.text_missing_subset_cols \X Inputs.textarea_column_types
             \X Inputs.textarea_rename_map \X Inputs.text_columns_to_keep}

\* the processor operations a click invokes when the form holds setting f
InvokedBy(f) == SeqSet(Pipeline(Begin(heap, processor, processed_df), f).calls)

\* C16: each of the seven cleaning operations, the user-supplied transform
\* (apply_custom_function) included, can be selected in the form: for each
\* there is a widget setting under which a click invokes it.
C16_AllSelectable ==
  phase = "ui" => \A op \in SevenOps : \E f \in FormSettings : op \in InvokedBy(f)

\* C17: when one of the six built-in operations raises, the working table
\* is equal to the table before the call: a failed step has no partial
\* effect.
C17_FailureAtomic ==
  (last.op \in OpSet /\ last.exc # NoExc) => CurrentDf = last.before

====
